---- MODULE Spec2Model ----
(***************************************************************************)
(* A model of package sorm: the per-session LRU cache of models            *)
(* (cache.go: modelLruCache, Dao.buildKey) and the row decoder             *)
(* (ScanStructSlice, ScanStruct, integerConverter, stringConverter).       *)
(*                                                                         *)
(* The module holds five specifications over one set of variables:         *)
(*   Spec      one caller running the cache operations one after another,  *)
(*   SpecConc  several threads running them step by step under the mutex,  *)
(*   SpecKey   Dao.buildKey applied to pairs of index-value tuples,        *)
(*   SpecTag   ScanStruct on one tagged field, over all small tag values,  *)
(*   SpecScan  ScanStructSlice decoding a batch of rows, row by row.       *)
(* Each specification leaves the variables of the others untouched.        *)
(***************************************************************************)
EXTENDS Integers, Sequences, FiniteSets, TLC

VARIABLES
    lru,      \* the modelLruCache: [elements, list, capacity, used]
    last,     \* the call that ran last and what it returned
    touched,  \* reference recency: <<key, object>> of cached keys, oldest touch first
    run,      \* the scenario in progress: an anchor and the new keys Put since
    locker,   \* sync.Mutex: 0 when free, else the thread holding it
    frames,   \* per thread: the operation it is inside, or Idle
    shadow,   \* the cache as the operations run one at a time, in lock order, leave it
    keyst,    \* buildKey: the table name, two index tuples and their results
    tagst,    \* ScanStruct on one field: the tag, the row and the result
    scanst    \* ScanStructSlice: rows, loop index, local slice, target, error

vars == <<lru, last, touched, run, locker, frames, shadow, keyst, tagst, scanst>>

----------------------------------------------------------------------------
(* Bounds of the model *)

NumKeys == 4      \* cache keys are 1..NumKeys
NumModels == 2    \* cached objects are 1..NumModels
MaxCap == 2       \* capacities given to newDaoLru and resetCapacity go up to MaxCap
NegCaps == 1      \* ... and down to -NegCaps
NumThreads == 2   \* threads of SpecConc
NumConcKeys == 2  \* keys the threads of SpecConc use

\* cache.go:113 reads daoModelLruCacheCapacity; the file that sets it is not
\* among the sources, so the model uses a small default.
daoModelLruCacheCapacity == 2

Keys == 1..NumKeys
Models == 1..NumModels
Caps == (0 - NegCaps)..MaxCap
Threads == 1..NumThreads
ConcKeys == 1..NumConcKeys

----------------------------------------------------------------------------
(* container/list as the cache uses it.  The list is the sequence of its   *)
(* nodes' values, front first.  A *list.Element is the node's position in  *)
(* that sequence, renumbered whenever a node moves, and 0 once the node    *)
(* is removed (list operations on a removed element do nothing).           *)

NoElements == [k \in {} |-> 0]

DropAt(s, i) == SubSeq(s, 1, i - 1) \o SubSeq(s, i + 1, Len(s))

\* where the reference p points after the node at position pos left the list
AfterRemove(p, pos) == IF p = pos THEN 0 ELSE IF p > pos THEN p - 1 ELSE p

\* where the reference p points after the node at pos moved to the back of a list of n
AfterMove(p, pos, n) == IF p = pos THEN n ELSE IF p > pos THEN p - 1 ELSE p

Retarget(els, F(_)) ==
    [k \in DOMAIN els |-> [els[k] EXCEPT !.listElem = F(els[k].listElem)]]

\* lru.list.Remove(e)
ListRemove(c, pos) ==
    IF pos = 0 THEN c
    ELSE LET Fix(p) == AfterRemove(p, pos)
         IN  [c EXCEPT !.list = DropAt(c.list, pos),
                       !.elements = Retarget(c.elements, Fix)]

\* a faulty MoveToBack: the node stays where it is
ListKeepPlace(c, pos) == c

\* lru.list.MoveToBack(e)
ListMoveToBack(c, pos) ==
    IF pos = 0 \/ pos = Len(c.list) THEN c
    ELSE LET Fix(p) == AfterMove(p, pos, Len(c.list))
         IN  [c EXCEPT !.list = Append(DropAt(c.list, pos), c.list[pos]),
                       !.elements = Retarget(c.elements, Fix)]

\* a faulty Front: the node at the back
ListBack(c) == Len(c.list)

\* lru.list.Front(): the front node, 0 (nil) on an empty list
ListFront(c) == IF c.list = <<>> THEN 0 ELSE 1

\* delete(lru.elements, key)
MapDelete(els, key) == [k \in DOMAIN els \ {key} |-> els[k]]

\* lru.elements[key] = e
MapStore(els, key, e) == [k \in DOMAIN els \cup {key} |-> IF k = key THEN e ELSE els[k]]

----------------------------------------------------------------------------
(* modelLruCache and its operations.  An operation in progress is a frame: *)
(* its arguments, the place it has reached (pc), the loop variable used    *)
(* of delListFrontElement and the value it returns.                        *)

NotFound == "ModelNotFoundError"
Panic == "panic: nil pointer dereference"
Idle == [op |-> "idle"]

\* what an operation returns: (model, error); a fault shows as the error Panic
Ret(model, err) == [model |-> model, err |-> err]
Ok == Ret(0, "nil")

\* newDaoLru(capacity)
newDaoLru(capacity) ==
    [elements |-> NoElements, list |-> <<>>, capacity |-> capacity, used |-> 0]

Frame(op, key, model, n) ==
    [op |-> op, key |-> key, model |-> model, n |-> n, pc |-> "body", used |-> 0, ret |-> Ok]

CS(c, f) == [c |-> c, f |-> f]

\* resetCapacity, after Lock: set the capacity, enter delListFrontElement
ResetBody(c, f) ==
    CS([c EXCEPT !.capacity = f.n], [f EXCEPT !.pc = "loop", !.used = c.used])

\* Clear, after Lock: fresh map, list.Init()
ClearBody(c, f) ==
    CS([c EXCEPT !.elements = NoElements, !.list = <<>>], [f EXCEPT !.pc = "clear2"])

\* Clear, second half: used and capacity
ClearRest(c, f) ==
    CS([c EXCEPT !.used = 0, !.capacity = daoModelLruCacheCapacity], [f EXCEPT !.pc = "unlock"])

\* a faulty Get: returns the object without MoveToBack
GetNoPromote(c, f) ==
    IF c.used > 0 /\ f.key \in DOMAIN c.elements
    THEN CS(c, [f EXCEPT !.pc = "unlock", !.ret = Ret(c.elements[f.key].model, "nil")])
    ELSE CS(c, [f EXCEPT !.pc = "unlock", !.ret = Ret(0, NotFound)])

\* Get, after Lock
GetBody(c, f) ==
    IF c.used > 0 /\ f.key \in DOMAIN c.elements
    THEN CS(ListMoveToBack(c, c.elements[f.key].listElem),
            [f EXCEPT !.pc = "unlock", !.ret = Ret(c.elements[f.key].model, "nil")])
    ELSE CS(c, [f EXCEPT !.pc = "unlock", !.ret = Ret(0, NotFound)])

\* addElement: used++, PushBack(key), store the element
addElement(c, key, model) ==
    [c EXCEPT !.used = c.used + 1,
              !.list = Append(c.list, key),
              !.elements = MapStore(c.elements, key,
                                    [listElem |-> Len(c.list) + 1, model |-> model])]

\* Put, after Lock: up to the call of delListFrontElement
PutBody(c, f) ==
    IF c.capacity < 1 THEN CS(c, [f EXCEPT !.pc = "unlock"])
    ELSE IF f.key \in DOMAIN c.elements
    THEN LET elem == c.elements[f.key]
             c1 == [c EXCEPT !.elements[f.key] = [listElem |-> elem.listElem, model |-> f.model]]
         IN  CS(ListMoveToBack(c1, elem.listElem), [f EXCEPT !.pc = "unlock"])
    ELSE LET c1 == addElement(c, f.key, f.model)
         IN  CS(c1, [f EXCEPT !.pc = "loop", !.used = c1.used])

\* a faulty Del: forgets list.Remove
DelKeepList(c, f) ==
    IF f.key \in DOMAIN c.elements
    THEN CS([c EXCEPT !.elements = MapDelete(c.elements, f.key), !.used = c.used - 1],
            [f EXCEPT !.pc = "unlock"])
    ELSE CS(c, [f EXCEPT !.pc = "unlock"])

\* Del, after Lock
DelBody(c, f) ==
    IF f.key \in DOMAIN c.elements
    THEN LET c1 == ListRemove(c, c.elements[f.key].listElem)
         IN  CS([c1 EXCEPT !.elements = MapDelete(c1.elements, f.key), !.used = c1.used - 1],
                [f EXCEPT !.pc = "unlock"])
    ELSE CS(c, [f EXCEPT !.pc = "unlock"])

\* delListFrontElement: the loop test and one turn of the loop.  Front() of
\* an empty list is nil, and frontElem.Value then faults; the deferred
\* Unlock still runs.
delListFrontElement(c, f) ==
    IF f.used > c.capacity
    THEN LET frontElem == ListFront(c)
         IN  IF frontElem = 0
             THEN CS(c, [f EXCEPT !.pc = "unlock", !.ret = Ret(0, Panic)])
             ELSE LET key == c.list[frontElem]
                  IN  IF key \in DOMAIN c.elements
                      THEN LET c1 == ListRemove(c, c.elements[key].listElem)
                           IN  CS([c1 EXCEPT !.elements = MapDelete(c1.elements, key),
                                             !.used = c1.used - 1],
                                  [f EXCEPT !.used = f.used - 1])
                      ELSE CS(c, [f EXCEPT !.used = f.used - 1])
    ELSE CS(c, [f EXCEPT !.pc = "unlock"])

\* one step of an operation's body, between Lock and the deferred Unlock
Step(c, f) ==
    CASE f.pc = "loop" -> delListFrontElement(c, f)
      [] f.pc = "clear2" -> ClearRest(c, f)
      [] f.pc = "body" /\ f.op = "resetCapacity" -> ResetBody(c, f)
      [] f.pc = "body" /\ f.op = "Clear" -> ClearBody(c, f)
      [] f.pc = "body" /\ f.op = "Get" -> GetBody(c, f)
      [] f.pc = "body" /\ f.op = "Put" -> PutBody(c, f)
      [] f.pc = "body" /\ f.op = "Del" -> DelBody(c, f)

\* an operation's body run to its end by one caller, nothing in between
RECURSIVE Run(_, _)
Run(c, f) == IF f.pc = "unlock" THEN CS(c, f) ELSE LET s == Step(c, f) IN Run(s.c, s.f)

\* what Get(key) would return, the cache left as it is
Lookup(c, key) == Run(c, Frame("Get", key, 0, 0)).f.ret

----------------------------------------------------------------------------
(* What the other specifications' variables hold while one of them runs *)

NoRun == [anchor |-> "none", k |-> 0, obj |-> 0, older |-> {}, news |-> <<>>]
NoCall == [op |-> "new", key |-> 0, model |-> 0, n |-> 0, ret |-> Ok, gone |-> {}]
NoCache == newDaoLru(0)
NoKeys == [pc |-> "off"]
NoTag == [pc |-> "off"]
NoScan == [pc |-> "off"]

CacheIdle ==
    /\ locker = 0
    /\ frames = [t \in Threads |-> Idle]
    /\ shadow = NoCache

KeyIdle == keyst = NoKeys
ScanIdle == tagst = NoTag /\ scanst = NoScan

----------------------------------------------------------------------------
(* Spec: one caller, whole operations.  last, touched and run record what  *)
(* the caller did and saw; the cache never reads them.                     *)

SeqOf(t) == [i \in 1..Len(t) |-> t[i][1]]
Without(t, key) == SelectSeq(t, LAMBDA e : e[1] # key)
Cached(t, c) == SelectSeq(t, LAMBDA e : e[1] \in DOMAIN c.elements)
Range(s) == {s[i] : i \in 1..Len(s)}

\* the record of the key, which is in t
RecordOf(t, key) == CHOOSE e \in Range(t) : e[1] = key

Call(f, r, c) ==
    [op |-> f.op, key |-> f.key, model |-> f.model, n |-> f.n, ret |-> r.f.ret,
     gone |-> DOMAIN c.elements \ DOMAIN r.c.elements]

Init ==
    /\ \E capacity \in Caps : lru = newDaoLru(capacity)
    /\ last = NoCall
    /\ touched = <<>>
    /\ run = NoRun
    /\ CacheIdle /\ KeyIdle /\ ScanIdle

Get(key) ==
    LET f == Frame("Get", key, 0, 0)
        r == Run(lru, f)
        hit == r.f.ret.err = "nil"
    IN  /\ lru' = r.c
        /\ last' = Call(f, r, lru)
        /\ touched' = IF hit
                         THEN Cached(Append(Without(touched, key), RecordOf(touched, key)), r.c)
                         ELSE Cached(touched, r.c)
        /\ run' = IF hit
                     THEN [anchor |-> "Get", k |-> key, obj |-> r.f.ret.model,
                           older |-> DOMAIN lru.elements \ {key}, news |-> <<>>]
                     ELSE NoRun
        /\ UNCHANGED <<locker, frames, shadow, keyst, tagst, scanst>>

Put(key, model) ==
    LET f == Frame("Put", key, model, 0)
        r == Run(lru, f)
        new == key \notin DOMAIN lru.elements
        more == /\ run.anchor # "none" /\ new /\ key # run.k /\ key \notin Range(run.news)
                /\ Len(run.news) < lru.capacity + (IF run.anchor = "empty" THEN 1 ELSE 0)
    IN  /\ lru' = r.c
        /\ last' = Call(f, r, lru)
        /\ touched' = IF lru.capacity >= 1
                         THEN Cached(Append(Without(touched, key), <<key, model>>), r.c)
                         ELSE Cached(touched, r.c)
        /\ run' = IF more THEN [run EXCEPT !.news = Append(run.news, key)]
                     ELSE IF lru.used = 0 /\ lru.capacity >= 1
                     THEN [NoRun EXCEPT !.anchor = "empty", !.news = <<key>>]
                     ELSE NoRun
        /\ UNCHANGED <<locker, frames, shadow, keyst, tagst, scanst>>

\* Del, resetCapacity and Clear touch no entry and end any scenario
Seen(f) ==
    LET r == Run(lru, f)
    IN  /\ lru' = r.c
        /\ last' = Call(f, r, lru)
        /\ touched' = Cached(touched, r.c)
        /\ run' = NoRun

Del(key) ==
    /\ Seen(Frame("Del", key, 0, 0))
    /\ UNCHANGED <<locker, frames, shadow, keyst, tagst, scanst>>

resetCapacity(capacity) ==
    /\ Seen(Frame("resetCapacity", 0, 0, capacity))
    /\ UNCHANGED <<locker, frames, shadow, keyst, tagst, scanst>>

Clear ==
    /\ Seen(Frame("Clear", 0, 0, 0))
    /\ UNCHANGED <<locker, frames, shadow, keyst, tagst, scanst>>

Next ==
    \/ \E key \in Keys : Get(key)
    \/ \E key \in Keys, model \in Models : Put(key, model)
    \/ \E key \in Keys : Del(key)
    \/ \E capacity \in Caps : resetCapacity(capacity)
    \/ Clear

Spec == Init /\ [][Next]_vars

----------------------------------------------------------------------------
(* Claims about the cache, one caller (Spec) *)

Max(a, b) == IF a >= b THEN a ELSE b
CachedKeys(c) == DOMAIN c.elements
Stored(model) == Ret(model, "nil")
IsSuffix(s, t) == Len(s) <= Len(t) /\ s = SubSeq(t, Len(t) - Len(s) + 1, Len(t))

\* the step is a Put of a key that is not cached, on a cache that holds
\* capacity >= 1 entries
PutOnFull ==
    /\ last'.op = "Put"
    /\ lru.capacity >= 1
    /\ Cardinality(CachedKeys(lru)) = lru.capacity
    /\ last'.key \notin CachedKeys(lru)

\* the step evicts exactly the entry touched longest ago and keeps the rest
EvictsOldest ==
    /\ touched # <<>>
    /\ LET victim == touched[1][1]
       IN  /\ last'.gone = {victim}
           /\ CachedKeys(lru') = (CachedKeys(lru) \ {victim}) \cup {last'.key}
           /\ \A e \in Range(touched) :
                  e[1] # victim => Lookup(lru', e[1]) = Stored(e[2])
           /\ \A k \in CachedKeys(lru) \ {victim} : \E e \in Range(touched) : e[1] = k
           /\ Lookup(lru', last'.key) = Stored(last'.model)

\* capacity + 1 distinct keys were Put into an empty cache, nothing in between
Filled == run.anchor = "empty" /\ Len(run.news) = lru.capacity + 1

FirstPutEvicted ==
    Filled => /\ Lookup(lru, run.news[1]).err = NotFound
              /\ CachedKeys(lru) = Range(run.news) \ {run.news[1]}

\* C1: a Put of an uncached key on a full cache of capacity C >= 1 evicts
\* exactly the entry whose last touch is the oldest; every other entry and
\* the new key stay retrievable with the object last stored for them; and
\* C + 1 distinct keys Put into an empty cache evict exactly the first.
LruEviction == [][PutOnFull => EvictsOldest]_vars /\ []FirstPutEvicted

LruEvictionWitness ==
    /\ Filled /\ lru.capacity >= 2
    /\ last.op = "Put" /\ last.gone = {run.news[1]}

\* Get(k) hit and n distinct uncached keys were Put since, nothing in between
AfterGet(n) == run.anchor = "Get" /\ lru.capacity >= 1 /\ Len(run.news) = n

Untouched == Keys \ ({run.k} \cup Range(run.news))

\* C2 as claimed: after Get(k) and Put of C further new keys, k is still
\* retrievable and the keys untouched since before the Get are evicted.
RecencyAfterCapacityPuts ==
    AfterGet(lru.capacity) =>
        /\ Lookup(lru, run.k) = Stored(run.obj)
        /\ \A j \in Untouched : Lookup(lru, j).err = NotFound

\* C2 amended: after Get(k) and Put of at most C - 1 further new keys, k is
\* still retrievable with its object; after exactly C - 1 of them every key
\* untouched since before the Get is evicted.
RecencyUpdate ==
    /\ \A n \in 0..(lru.capacity - 1) :
          AfterGet(n) => Lookup(lru, run.k) = Stored(run.obj)
    /\ AfterGet(lru.capacity - 1) =>
          \A j \in Untouched : Lookup(lru, j).err = NotFound

RecencyUpdateWitness ==
    /\ AfterGet(lru.capacity - 1) /\ lru.capacity >= 2
    /\ run.older # {} /\ last.gone # {}
    /\ Lookup(lru, run.k) = Stored(run.obj)

\* C3: resetCapacity(n) returns without a fault for every n, the capacity
\* becomes n, at most max(n, 0) entries stay, and the entries that stay are
\* the most recently used ones.
ResetCapacityTotal ==
    [][last'.op = "resetCapacity" =>
          /\ last'.ret.err = "nil"
          /\ lru'.capacity = last'.n
          /\ Cardinality(CachedKeys(lru')) <= Max(last'.n, 0)
          /\ IsSuffix(lru'.list, lru.list)]_vars

NoDuplicates(s) == \A i, j \in 1..Len(s) : s[i] = s[j] => i = j

\* C10: after every operation the keys of the map are the keys of the list,
\* each once, every element points at its own node, and used is their number.
StructuralInvariant ==
    /\ CachedKeys(lru) = Range(lru.list)
    /\ NoDuplicates(lru.list)
    /\ \A k \in CachedKeys(lru) :
          /\ lru.elements[k].listElem \in 1..Len(lru.list)
          /\ lru.list[lru.elements[k].listElem] = k
    /\ lru.used = Cardinality(CachedKeys(lru))
    /\ lru.used = Len(lru.list)

StructuralInvariantWitness ==
    /\ last.op = "Del" /\ last.gone # {}
    /\ lru.used >= 1 /\ lru.capacity >= 2

----------------------------------------------------------------------------
(* SpecConc: threads call the operations on one cache.  Every operation    *)
(* starts with lru.locker.Lock() and defers lru.locker.Unlock(); between   *)
(* the two its body runs one Step at a time, other threads in between.     *)

\* a faulty Lock that never waits
LockAnyway(t) == TRUE

\* lru.locker.Lock() returns only when no thread holds the mutex
CanLock(t) == locker = 0

Calls ==
    {Frame("Get", key, 0, 0) : key \in ConcKeys}
    \cup {Frame("Put", key, model, 0) : key \in ConcKeys, model \in Models}
    \cup {Frame("Del", key, 0, 0) : key \in ConcKeys}
    \cup {Frame("resetCapacity", 0, 0, capacity) : capacity \in Caps}
    \cup {Frame("Clear", 0, 0, 0)}

InitConc ==
    /\ \E capacity \in Caps : lru = newDaoLru(capacity)
    /\ shadow = lru
    /\ locker = 0
    /\ frames = [t \in Threads |-> Idle]
    /\ last = NoCall /\ touched = <<>> /\ run = NoRun
    /\ KeyIdle /\ ScanIdle

\* thread t enters an operation: Lock() returns
Lock(t, f) ==
    /\ frames[t] = Idle
    /\ CanLock(t)
    /\ locker' = t
    /\ frames' = [frames EXCEPT ![t] = f]
    /\ shadow' = Run(shadow, f).c
    /\ UNCHANGED <<lru, last, touched, run, keyst, tagst, scanst>>

\* thread t runs the next step of its operation's body
StepBody(t) ==
    /\ frames[t] # Idle
    /\ frames[t].pc # "unlock"
    /\ LET s == Step(lru, frames[t])
       IN  /\ lru' = s.c
           /\ frames' = [frames EXCEPT ![t] = s.f]
    /\ UNCHANGED <<locker, shadow, last, touched, run, keyst, tagst, scanst>>

\* thread t leaves its operation: the deferred Unlock() runs, also after a fault
Unlock(t) ==
    /\ frames[t] # Idle
    /\ frames[t].pc = "unlock"
    /\ locker' = 0
    /\ frames' = [frames EXCEPT ![t] = Idle]
    /\ UNCHANGED <<lru, shadow, last, touched, run, keyst, tagst, scanst>>

NextConc ==
    \E t \in Threads :
        \/ \E f \in Calls : Lock(t, f)
        \/ StepBody(t)
        \/ Unlock(t)

SpecConc == InitConc /\ [][NextConc]_vars

InBody == {t \in Threads : frames[t] # Idle}

\* C4: an operation is inside its body only while it holds the mutex, so at
\* most one body runs at a time; the mutex is free again once the operation
\* has ended; and whenever the mutex is free the cache is in the state the
\* same operations leave when run one after another, in lock order.
MutexDiscipline ==
    /\ \A t \in InBody : locker = t
    /\ Cardinality(InBody) <= 1
    /\ InBody = {} => locker = 0
    /\ locker = 0 => lru = shadow

\* a thread is in the middle of an eviction and the cache is over capacity,
\* a state no sequence of whole operations shows
MutexDisciplineWitness ==
    \E t \in Threads :
        /\ locker = t /\ frames[t].pc = "loop"
        /\ lru.capacity >= 1 /\ lru.used > lru.capacity
        /\ lru # shadow

----------------------------------------------------------------------------
(* Dao.buildKey.  A Go string or []byte is the sequence of its characters. *)
(* An index value is a record of its dynamic type (kind) and its value;    *)
(* a float is given in halves (half = 3 is 1.5), which float32 and float64 *)
(* both hold exactly.                                                      *)

MaxTupleLen == 2   \* index tuples have up to MaxTupleLen values

Digit(d) == CASE d = 0 -> "0" [] d = 1 -> "1" [] d = 2 -> "2" [] d = 3 -> "3" [] d = 4 -> "4"
              [] d = 5 -> "5" [] d = 6 -> "6" [] d = 7 -> "7" [] d = 8 -> "8" [] d = 9 -> "9"

RECURSIVE Digits(_)
Digits(n) == IF n < 10 THEN <<Digit(n)>> ELSE Append(Digits(n \div 10), Digit(n % 10))

\* fmt.Sprintf("%d", m), strconv.FormatInt(m, 10)
FormatInt(m) == IF m < 0 THEN <<"-">> \o Digits(0 - m) ELSE Digits(m)

\* strconv.FormatFloat(m, 'f', -1, 64) of half/2: the shortest decimal
FormatFloat(half) ==
    LET abs == IF half < 0 THEN 0 - half ELSE half
        sign == IF half < 0 THEN <<"-">> ELSE <<>>
    IN  sign \o Digits(abs \div 2) \o (IF abs % 2 = 1 THEN <<".", "5">> ELSE <<>>)

IntKinds == {"int", "int64", "uint", "uint64", "int32", "int16", "int8", "uint32", "uint16", "uint8"}
FloatKinds == {"float32", "float64"}

NoErr == "nil"
EmptyKeyErr == "the index key can not be empty string"
NotSupportErr == "not support index key"
ValuerErr == "value provider failed"

Written(text) == [text |-> text, err |-> NoErr]
Failed(err) == [text |-> <<>>, err |-> err]

\* a faulty write that leaves the delimiter out
Undelimited(text) == Written(text)

\* the delimiter character, the backtick
Delim == "backtick"

\* buildStr.WriteString(Delim) and the value after it
Delimited(text) == Written(<<Delim>> \o text)

\* a faulty string case that takes the empty text too
WriteAnyString(m) == Delimited(m)

\* case string
WriteString(m) == IF m = <<>> THEN Failed(EmptyKeyErr) ELSE Delimited(m)

\* the type switch of buildKey on one index value; a driver.Valuer is
\* replaced by its Value() and the switch is entered again (goto assert)
RECURSIVE WriteIndex(_)
WriteIndex(v) ==
    CASE v.kind \in IntKinds -> Delimited(FormatInt(v.val))
      [] v.kind \in FloatKinds -> Delimited(FormatFloat(v.val))
      [] v.kind = "string" -> WriteString(v.val)
      [] v.kind = "[]byte" -> Delimited(v.val)
      [] v.kind = "driver.Valuer" ->
            IF v.err = NoErr THEN WriteIndex(v.val) ELSE Failed(v.err)
      [] OTHER -> Failed(NotSupportErr)

RECURSIVE KeyLoop(_, _, _)
KeyLoop(buildStr, indexes, i) ==
    IF i > Len(indexes) THEN [key |-> buildStr, err |-> NoErr]
    ELSE LET w == WriteIndex(indexes[i])
         IN  IF w.err # NoErr THEN [key |-> <<>>, err |-> w.err]
             ELSE KeyLoop(buildStr \o w.text, indexes, i + 1)

\* d.buildKey(indexes...)
buildKey(tableName, indexes) == KeyLoop(tableName, indexes, 1)

----------------------------------------------------------------------------
(* SpecKey: buildKey on the index tuples of up to MaxTupleLen values *)

Val(kind, val) == [kind |-> kind, val |-> val, err |-> NoErr]

Plain ==
    {Val("int", 0 - 1), Val("int", 1), Val("int64", 11), Val("uint8", 1),
     Val("float64", 1), Val("float64", 2), Val("float32", 2),
     Val("string", <<"1">>), Val("string", <<"1", "1">>), Val("string", <<"0", ".", "5">>),
     Val("[]byte", <<"1">>)}

IndexValues ==
    Plain
    \cup {Val("string", <<>>), Val("string", <<"1", Delim, "1">>), Val("[]byte", <<>>),
          Val("bool", 1),
          Val("driver.Valuer", Val("int64", 1)), Val("driver.Valuer", Val("string", <<>>)),
          [kind |-> "driver.Valuer", val |-> 0, err |-> ValuerErr]}

TuplesOf(S) == UNION {[1..n -> S] : n \in 0..MaxTupleLen}

TableNames == {<<"t">>, <<"t", "1">>}

InitKey ==
    /\ \E tableName \in TableNames, indexes \in TuplesOf(IndexValues) :
          keyst = [pc |-> "call", tableName |-> tableName, indexes |-> indexes,
                   key |-> <<>>, err |-> NoErr]
    /\ lru = NoCache /\ last = NoCall /\ touched = <<>> /\ run = NoRun
    /\ CacheIdle /\ ScanIdle

BuildKey ==
    /\ keyst.pc = "call"
    /\ LET r == buildKey(keyst.tableName, keyst.indexes)
       IN  keyst' = [keyst EXCEPT !.pc = "done", !.key = r.key, !.err = r.err]
    /\ UNCHANGED <<lru, last, touched, run, locker, frames, shadow, tagst, scanst>>

NextKey == BuildKey

SpecKey == InitKey /\ [][NextKey]_vars

Family(v) ==
    CASE v.kind \in IntKinds -> "integer"
      [] v.kind \in FloatKinds -> "float"
      [] v.kind = "string" -> "text"
      [] v.kind = "[]byte" -> "bytes"
      [] OTHER -> "other"

\* the value as the claim counts values: its family and its number or text
\* (a float in halves)
Identity(v) == <<Family(v), v.val>>
Identities(t) == [i \in 1..Len(t) |-> Identity(t[i])]

\* what the value looks like written out
Shown(v) ==
    CASE Family(v) = "integer" -> FormatInt(v.val)
      [] Family(v) = "float" -> FormatFloat(v.val)
      [] OTHER -> v.val
AllShown(t) == [i \in 1..Len(t) |-> Shown(t[i])]
Families(t) == [i \in 1..Len(t) |-> Family(t[i])]

HasDelimiter(text) == \E i \in 1..Len(text) : text[i] = Delim

\* an integer, a float, or a text or byte sequence that is not empty and
\* holds no delimiter
InDomain(v) ==
    /\ Family(v) # "other"
    /\ Family(v) \in {"text", "bytes"} => v.val # <<>> /\ ~HasDelimiter(v.val)

DomainTuples == TuplesOf({v \in IndexValues : InDomain(v)})

KeyBuilt == keyst.pc = "done" /\ keyst.indexes \in DomainTuples

\* C5 as claimed: over the tuples of the domain, two tuples give the same
\* key exactly when they are the same tuple of values, an integer, a float,
\* a text and a byte sequence counting as different values.
KeyInjective ==
    KeyBuilt =>
        \A other \in DomainTuples :
            (buildKey(keyst.tableName, other).key = keyst.key)
                <=> (Identities(other) = Identities(keyst.indexes))

\* C5 amended: equal tuples give equal keys without error; two tuples give
\* the same key exactly when they have the same length and every position
\* is written out alike; so tuples that differ in a position where both
\* hold values of the same family give different keys, while values of
\* different families that are written alike give the same key.
KeyInjectiveOnShown ==
    KeyBuilt =>
        /\ keyst.err = NoErr
        /\ \A other \in DomainTuples :
              LET k == buildKey(keyst.tableName, other)
              IN  /\ k.err = NoErr
                  /\ Identities(other) = Identities(keyst.indexes) => k.key = keyst.key
                  /\ (k.key = keyst.key) <=> (AllShown(other) = AllShown(keyst.indexes))
                  /\ (/\ Families(other) = Families(keyst.indexes)
                      /\ Identities(other) # Identities(keyst.indexes)) => k.key # keyst.key

KeyInjectiveOnShownWitness ==
    /\ KeyBuilt /\ Len(keyst.indexes) = 2
    /\ keyst.indexes[1] = Val("int64", 11)
    /\ keyst.key = keyst.tableName \o <<Delim, "1", "1", Delim, "1">>
    /\ \E other \in DomainTuples :
          /\ Families(other) # Families(keyst.indexes)
          /\ buildKey(keyst.tableName, other).key = keyst.key

EmptyText == Val("string", <<>>)
EmptyAt(t) == {i \in 1..Len(t) : t[i] = EmptyText}
KeyDone == keyst.pc = "done" /\ EmptyAt(keyst.indexes) # {}

\* C6 as claimed: a tuple with an empty text at some position gives no key
\* and the empty-string error, whatever the other values are.
EmptyTextAlwaysEmptyKeyErr ==
    KeyDone => keyst.key = <<>> /\ keyst.err = EmptyKeyErr

\* the value is written without error
Writable(v) == WriteIndex(v).err = NoErr

\* C6 amended: a tuple with an empty text at some position gives no key and
\* an error; the error is the empty-string error when every value before
\* the first empty text is one buildKey can write (a supported kind, a
\* value provider that does not fail).
EmptyTextFails ==
    KeyDone =>
        LET first == CHOOSE i \in EmptyAt(keyst.indexes) :
                        \A j \in EmptyAt(keyst.indexes) : i <= j
        IN  /\ keyst.key = <<>>
            /\ keyst.err # NoErr
            /\ (\A j \in 1..(first - 1) : Writable(keyst.indexes[j]))
                  => keyst.err = EmptyKeyErr

EmptyTextFailsWitness ==
    /\ KeyDone /\ Len(keyst.indexes) = 2
    /\ keyst.indexes[1] = Val("int", 1) /\ keyst.indexes[2] = EmptyText
    /\ keyst.err = EmptyKeyErr /\ keyst.key = <<>>

----------------------------------------------------------------------------
(* The row decoder.  A raw value is a record of its dynamic type and its   *)
(* value; a struct type is its name, whether the target is a pointer to    *)
(* it, and its fields; a decoded object is the sequence of its fields'     *)
(* values.  Integers in the rows are small, so int64 and uint64 hold them  *)
(* as they are; the narrow kinds int8 and uint8 wrap as SetInt and SetUint *)
(* make them.  Floats are given in halves and are not negative.            *)

Raw(kind, val) == [kind |-> kind, val |-> val]
Nil == Raw("nil", 0)

ErrNotSupportStructField == "struct field not support"
ErrNotSupportType == "data type not support"
ErrTargetNotSettable == "target not settable"
ErrSyntax == "strconv: invalid syntax"
ErrScanner == "sql.Scanner: Scan failed"
ErrRecovered == "error:[recovered panic], stack:[...]"

\* an error value: a plain error has no struct, field and types
Err(msg) == [err |-> msg, structName |-> "", fieldName |-> "", from |-> "", to |-> ""]
NoError == Err("nil")

\* newScanError(err, structName, fieldName, from, to)
newScanError(err, structName, fieldName, from, to) ==
    [err |-> err, structName |-> structName, fieldName |-> fieldName, from |-> from, to |-> to]

SignedKinds == {"int", "int8", "int16", "int32", "int64"}
UnsignedKinds == {"uint", "uint8", "uint16", "uint32", "uint64"}

isIntSeriesType(k) == k \in SignedKinds
isUintSeriesType(k) == k \in UnsignedKinds
isFloatSeriesType(k) == k \in {"float32", "float64"}

\* reflect.Value.SetInt: the field keeps the low bits its kind holds
SetInt(kind, x) == IF kind = "int8" THEN ((x + 128) % 256) - 128 ELSE x

\* reflect.Value.SetUint of uint64(x); uint8 is the unsigned kind the
\* model's structs use, and 2^64 is a multiple of 2^8
SetUint(kind, x) == IF kind = "uint8" THEN x % 256 ELSE x

Set(val) == [err |-> NoErr, val |-> val]
NotSet(err) == [err |-> err, val |-> 0]

\* a faulty test: every value but zero is true
NonZero(unsigned, v) == v # 0

\* integerConverter, kind Bool: the test that decides SetBool(true)
IntegerIsTrue(unsigned, v) == (unsigned /\ v > 0) \/ (~unsigned /\ v > 0)

\* integerConverter(targetValueField, dataVal, unsigned)
integerConverter(kind, dataVal, unsigned) ==
    IF dataVal.kind \notin SignedKinds \cup UnsignedKinds THEN NotSet(ErrNotSupportType)
    ELSE LET dataValConverted == dataVal.val
         IN  CASE isIntSeriesType(kind) -> Set(SetInt(kind, dataValConverted))
               [] isUintSeriesType(kind) -> Set(SetUint(kind, dataValConverted))
               [] kind = "bool" -> Set(IntegerIsTrue(unsigned, dataValConverted))
               [] kind = "string" -> Set(FormatInt(dataValConverted))
               [] isFloatSeriesType(kind) -> Set(2 * dataValConverted)
               [] OTHER -> NotSet(ErrNotSupportStructField)

\* strconv.FormatFloat(f, 'f', 6, 64) of half/2
FormatFloat6(half) ==
    Digits(half \div 2)
        \o (IF half % 2 = 1 THEN <<".", "5", "0", "0", "0", "0", "0">>
                              ELSE <<".", "0", "0", "0", "0", "0", "0">>)

\* floatConverter(targetValueField, dataVal)
floatConverter(kind, dataVal) ==
    IF ~isFloatSeriesType(dataVal.kind) THEN NotSet(ErrNotSupportType)
    ELSE LET dataValFloat64 == dataVal.val
         IN  CASE isIntSeriesType(kind) -> Set(SetInt(kind, dataValFloat64 \div 2))
               [] isUintSeriesType(kind) -> Set(SetUint(kind, dataValFloat64 \div 2))
               [] kind = "bool" -> Set(dataValFloat64 > 0)
               [] kind = "string" -> Set(FormatFloat6(dataValFloat64))
               [] isFloatSeriesType(kind) -> Set(dataValFloat64)
               [] OTHER -> NotSet(ErrNotSupportStructField)

DigitOf(ch) == CASE ch = "0" -> 0 [] ch = "1" -> 1 [] ch = "2" -> 2 [] ch = "3" -> 3 [] ch = "4" -> 4
                 [] ch = "5" -> 5 [] ch = "6" -> 6 [] ch = "7" -> 7 [] ch = "8" -> 8 [] ch = "9" -> 9
IsDigit(ch) == ch \in {"0", "1", "2", "3", "4", "5", "6", "7", "8", "9"}

RECURSIVE NumberOf(_)
NumberOf(str) ==
    IF str = <<>> THEN 0
    ELSE 10 * NumberOf(SubSeq(str, 1, Len(str) - 1)) + DigitOf(str[Len(str)])

\* strconv.ParseUint(s, 10, 64): digits only
ParseUint(str) ==
    IF str # <<>> /\ \A i \in 1..Len(str) : IsDigit(str[i])
    THEN Set(NumberOf(str)) ELSE NotSet(ErrSyntax)

\* the sign of strconv.ParseInt applied to the digits after it
Signed(u, minus) == IF u.err # NoErr \/ ~minus THEN u ELSE Set(0 - u.val)

\* strconv.ParseInt(s, 10, 64): an optional sign, then digits
ParseInt(str) ==
    LET sign == str # <<>> /\ str[1] \in {"+", "-"}
    IN  Signed(ParseUint(IF sign THEN Tail(str) ELSE str), sign /\ str[1] = "-")

\* a converter's "if err != nil { return err }" after a parse, then its Set
SetParsedInt(kind, n) == IF n.err # NoErr THEN n ELSE Set(SetInt(kind, n.val))
SetParsedUint(kind, n) == IF n.err # NoErr THEN n ELSE Set(SetUint(kind, n.val))
SetParsedFloat(n) == IF n.err # NoErr THEN n ELSE Set(2 * n.val)
SetParsedBool(n) == IF n.err # NoErr THEN n ELSE Set(n.val > 0)

\* strconv.ParseFloat(s, 64) of a text that holds no fraction and no
\* exponent, which is all the rows of the model hold; the result in halves
ParseFloat(str) == SetParsedFloat(ParseInt(str))

\* stringConverter(targetValueField, dataVal), after the type assertion
ConvertString(kind, dataValStr) ==
    CASE kind = "string" -> Set(dataValStr)
      [] isIntSeriesType(kind) -> SetParsedInt(kind, ParseInt(dataValStr))
      [] isUintSeriesType(kind) -> SetParsedUint(kind, ParseUint(dataValStr))
      [] isFloatSeriesType(kind) -> ParseFloat(dataValStr)
      [] kind = "bool" -> SetParsedBool(ParseInt(dataValStr))
      [] OTHER -> NotSet(ErrNotSupportStructField)

stringConverter(kind, dataVal) ==
    IF dataVal.kind # "string" THEN NotSet(ErrNotSupportType)
    ELSE ConvertString(kind, dataVal.val)

\* sliceConverter: BytesToString, then the cases of stringConverter
sliceConverter(kind, dataVal) ==
    IF dataVal.kind # "[]byte" THEN NotSet(ErrNotSupportType)
    ELSE ConvertString(kind, dataVal.val)

\* scan(targetValueField, dataVal); reflect.TypeOf(nil).Kind() faults
scan(kind, dataVal) ==
    CASE dataVal.kind = "nil" -> NotSet(ErrRecovered)
      [] isIntSeriesType(dataVal.kind) -> integerConverter(kind, dataVal, FALSE)
      [] isUintSeriesType(dataVal.kind) -> integerConverter(kind, dataVal, TRUE)
      [] isFloatSeriesType(dataVal.kind) -> floatConverter(kind, dataVal)
      [] dataVal.kind \in {"[]byte", "[]int"} -> sliceConverter(kind, dataVal)
      [] dataVal.kind = "string" -> stringConverter(kind, dataVal)
      [] dataVal.kind = "time.Time" ->
            IF kind = "string" THEN Set(dataVal.val)
            ELSE IF kind = "time.Time" THEN Set(dataVal.val)
            ELSE NotSet(ErrNotSupportType)
      [] OTHER -> NotSet(ErrNotSupportType)

\* strings.IndexByte(s, c): the first place of c in s, from 0; -1 if none
IndexByte(str, c) ==
    IF \E i \in 1..Len(str) : str[i] = c
    THEN (CHOOSE i \in 1..Len(str) : str[i] = c /\ \A j \in 1..(i - 1) : str[j] # c) - 1
    ELSE 0 - 1

\* a faulty rule: whatever the first segment is, the rest is the name
AfterComma(tagValue) ==
    LET idx == IndexByte(tagValue, ",")
    IN  IF idx # 0 - 1 THEN SubSeq(tagValue, idx + 2, Len(tagValue)) ELSE tagValue

\* ScanStruct, lines 90-96: the name a field's tag value is looked up under
LookupName(tagValue) ==
    LET idx == IndexByte(tagValue, ",")
    IN  IF idx # 0 - 1
        THEN IF SubSeq(tagValue, 1, idx) = <<"p", "k">>
             THEN SubSeq(tagValue, idx + 2, Len(tagValue))
             ELSE SubSeq(tagValue, 1, idx)
        ELSE tagValue

\* the zero value of a field
Zero(field) ==
    IF field.ptr THEN Raw("nil", 0)
    ELSE CASE field.kind = "bool" -> FALSE
           [] field.kind = "string" -> <<>>
           [] field.kind = "time.Time" -> <<>>
           [] field.kind = "sql.Scanner" -> [scanned |-> Nil, bound |-> FALSE]
           [] OTHER -> 0

\* a field that holds a pointer gets a fresh pointee before scan
Pointee(field, val) == IF field.ptr THEN [ref |-> val] ELSE val

Decoded(err, obj) == [err |-> err, obj |-> obj]

FieldDone(err, val) == [err |-> err, val |-> val]

\* ScanStruct, lines 99-121: what the field holds and the error of the loop
\* once the Scanner or scan has answered got
ScanResult(type, bindModel, field, dataVal, got) ==
    LET val == IF field.kind = "sql.Scanner"
               THEN [scanned |-> IF got.err = NoErr THEN dataVal ELSE Nil,
                     bound |-> bindModel]
               ELSE IF got.err = NoErr THEN Pointee(field, got.val)
               ELSE IF field.ptr THEN Pointee(field, Zero([field EXCEPT !.ptr = FALSE]))
               ELSE Zero(field)
    IN  IF got.err = ErrRecovered THEN FieldDone(Err(ErrRecovered), val)
        ELSE IF got.err # NoErr
        THEN FieldDone(newScanError(got.err, type.name, field.name,
                                    dataVal.kind, field.kind), val)
        ELSE FieldDone(NoError, val)

\* ScanStruct, lines 99-121: the field's tag names a value of the row
ScanPresent(type, bindModel, field, dataVal) ==
    ScanResult(type, bindModel, field, dataVal,
               IF field.kind = "sql.Scanner"
               THEN IF field.scanFails THEN NotSet(ErrScanner) ELSE Set(dataVal)
               ELSE scan(field.kind, dataVal))

\* ScanStruct, lines 97-126: the field under the name its tag gives
ScanNamed(data, type, bindModel, field, tagValue) ==
    IF tagValue \in DOMAIN data
    THEN ScanPresent(type, bindModel, field, data[tagValue])
    ELSE IF bindModel /\ field.kind = "sql.Scanner"
    THEN FieldDone(NoError, [Zero(field) EXCEPT !.bound = TRUE])
    ELSE FieldDone(NoError, Zero(field))

\* ScanStruct, lines 88-127: the body of the loop for one field of a fresh
\* object: the error it ends the loop with, if any, and what the field holds
ScanOne(data, type, bindModel, field) ==
    IF ~field.tagged THEN FieldDone(NoError, Zero(field))
    ELSE IF ~field.exported
    THEN \* Addr().Interface() of an unexported field faults
         FieldDone(Err(ErrRecovered), Zero(field))
    ELSE ScanNamed(data, type, bindModel, field, LookupName(field.tag))

ScanField(data, type, bindModel, i) == ScanOne(data, type, bindModel, type.fields[i])

ZeroObject(type) == [i \in 1..Len(type.fields) |-> Zero(type.fields[i])]

\* ScanStruct, lines 87-129: the loop ends at the first field that fails;
\* the fields after it keep their zero values
LoopUntilError(type, done) ==
    LET failing == {i \in 1..Len(type.fields) : done[i].err # NoError}
        last_i == IF failing = {} THEN Len(type.fields)
                  ELSE CHOOSE i \in failing : \A j \in failing : i <= j
    IN  Decoded(IF failing = {} THEN NoError ELSE done[last_i].err,
                [i \in 1..Len(type.fields) |->
                    IF i <= last_i THEN done[i].val ELSE Zero(type.fields[i])])

\* ScanStruct, lines 87-129, into a fresh object: the fields in order
FieldLoop(data, type, bindModel) ==
    LoopUntilError(type, [i \in 1..Len(type.fields) |-> ScanField(data, type, bindModel, i)])

\* ScanStruct, lines 73-86: a pointer target gets a new object only when
\* decoding it succeeds
NewTarget(type, r) ==
    IF type.ptr
    THEN IF r.err = NoError THEN Decoded(NoError, [ref |-> r.obj])
         ELSE Decoded(r.err, Raw("nil", 0))
    ELSE r

\* ScanStruct(data, target, tagName, bindModel) into a fresh target
ScanStruct(data, type, bindModel) == NewTarget(type, FieldLoop(data, type, bindModel))

----------------------------------------------------------------------------
(* SpecTag: ScanStruct on a struct of one string field, over every tag     *)
(* value of up to MaxTagLen characters.  The row holds every name, each    *)
(* with a text that tells the name, so the field shows the name looked up. *)

MaxTagLen == 4

TagChars == {"p", "k", ",", "a"}
TagValues == UNION {[1..n -> TagChars] : n \in 0..MaxTagLen}

Field(name, tagged, tag, kind) ==
    [name |-> name, tagged |-> tagged, tag |-> tag, kind |-> kind,
     ptr |-> FALSE, exported |-> TRUE, scanFails |-> FALSE]

Struct(name, ptr, fields) == [name |-> name, ptr |-> ptr, fields |-> fields]

Marked(name) == <<"=">> \o name
TagRow == [name \in TagValues |-> Raw("string", Marked(name))]
TagType(tag) == Struct("Tagged", FALSE, <<Field("F", TRUE, tag, "string")>>)

InitTag ==
    /\ \E tag \in TagValues : tagst = [pc |-> "call", tag |-> tag, err |-> NoError, field |-> <<>>]
    /\ lru = NoCache /\ last = NoCall /\ touched = <<>> /\ run = NoRun
    /\ CacheIdle /\ KeyIdle /\ scanst = NoScan

ScanTagged ==
    /\ tagst.pc = "call"
    /\ \E r \in {ScanStruct(TagRow, TagType(tagst.tag), FALSE)} :
          tagst' = [tagst EXCEPT !.pc = "done", !.err = r.err, !.field = r.obj[1]]
    /\ UNCHANGED <<lru, last, touched, run, locker, frames, shadow, keyst, scanst>>

NextTag == ScanTagged

SpecTag == InitTag /\ [][NextTag]_vars

\* the tag value cut at its commas
RECURSIVE Segments(_)
Segments(str) ==
    IF \A i \in 1..Len(str) : str[i] # "," THEN <<str>>
    ELSE LET i == CHOOSE i \in 1..Len(str) : str[i] = "," /\ \A j \in (i + 1)..Len(str) : str[j] # ","
         IN  Append(Segments(SubSeq(str, 1, i - 1)), SubSeq(str, i + 1, Len(str)))

\* segments from..end joined by commas again
RECURSIVE Joined(_, _)
Joined(segs, from) ==
    IF from > Len(segs) THEN <<>>
    ELSE IF from = Len(segs) THEN segs[from]
    ELSE segs[from] \o <<",">> \o Joined(segs, from + 1)

TagDone == tagst.pc = "done"

\* C9 as claimed: without a comma the lookup name is the whole tag value;
\* with one, the first segment is dropped, pk or not, and the rest is the name.
TagNameIsRemainder ==
    TagDone =>
        LET segs == Segments(tagst.tag)
        IN  tagst.field = Marked(IF Len(segs) = 1 THEN tagst.tag ELSE Joined(segs, 2))

\* C9 amended: without a comma the lookup name is the whole tag value; for
\* "pk,<name>" it is <name>, all that follows the first comma; for any other
\* first segment the name is that first segment and the rest is ignored.
TagLookupName ==
    TagDone =>
        LET segs == Segments(tagst.tag)
        IN  /\ tagst.err = NoError
            /\ tagst.field = Marked(IF Len(segs) = 1 THEN tagst.tag
                                     ELSE IF segs[1] = <<"p", "k">> THEN Joined(segs, 2)
                                     ELSE segs[1])

TagLookupNameWitness ==
    /\ TagDone
    /\ tagst.tag = <<"a", ",", "p", "k">>
    /\ tagst.field = Marked(<<"a">>)

----------------------------------------------------------------------------
(* SpecScan: ScanStructSlice, one row of the batch at a time *)

MaxRows == 2

DestKinds == {"int8", "int64", "uint8", "bool", "string", "float64", "time.Time", "struct"}

PkField == Field("Id", TRUE, <<"p", "k", ",", "b">>, "string")
AField(kind) == Field("A", TRUE, <<"a">>, kind)

StructTypes ==
    {Struct("Row", FALSE, <<AField(kind), PkField>>) : kind \in DestKinds}
    \cup {Struct("PtrRow", TRUE, <<AField("bool"), PkField>>),
          Struct("Scanned", FALSE, <<AField("sql.Scanner"), PkField>>),
          Struct("Refused", FALSE, <<[AField("sql.Scanner") EXCEPT !.scanFails = TRUE], PkField>>),
          Struct("Pointee", FALSE, <<[AField("int64") EXCEPT !.ptr = TRUE], PkField>>),
          Struct("Hidden", FALSE, <<PkField, [AField("int64") EXCEPT !.exported = FALSE]>>),
          Struct("Untagged", FALSE, <<Field("a", FALSE, <<>>, "int64"), PkField>>)}

RawValues ==
    {Raw("int", 0 - 1), Raw("int8", 0), Raw("int64", 7), Raw("uint16", 7), Raw("int", 300),
     Raw("string", <<"7">>), Raw("string", <<"x">>), Raw("float64", 7),
     Raw("[]byte", <<"-", "1">>), Raw("time.Time", <<"2", "0", "2", "6">>), Nil}

RowOf(v) == [name \in {<<"a">>, <<"b">>} |-> IF name = <<"a">> THEN v ELSE Raw("string", <<"x">>)]
Rows == {RowOf(v) : v \in RawValues} \cup {[name \in {<<"b">>} |-> Raw("[]byte", <<"y">>)]}

Batches == UNION {[1..n -> Rows] : n \in 0..MaxRows}

\* how ScanStructSlice is called: target a pointer to a slice or the slice
\* itself, bindModel on or off
Shapes == {<<TRUE, FALSE>>, <<TRUE, TRUE>>, <<FALSE, FALSE>>}

\* what the caller's slice holds before the call: objects of an earlier
\* batch, more of them than a batch of the model has rows
Stale(type) == IF type.ptr THEN [ref |-> ZeroObject(type)] ELSE ZeroObject(type)
BeforeCall(type) == [i \in 1..(MaxRows + 1) |-> Stale(type)]
Before == BeforeCall(scanst.type)

InitScan ==
    /\ \E type \in StructTypes, data \in Batches, shape \in Shapes :
          scanst = [pc |-> "call", type |-> type, data |-> data,
                    targetIsPtr |-> shape[1], bindModel |-> shape[2],
                    i |-> 0, targetValueSlice |-> <<>>, target |-> BeforeCall(type), err |-> NoError]
    /\ lru = NoCache /\ last = NoCall /\ touched = <<>> /\ run = NoRun
    /\ CacheIdle /\ KeyIdle /\ tagst = NoTag

\* a faulty return that hands over the rows decoded so far
ReturnPartial(st, err) == [st EXCEPT !.pc = "done", !.err = err, !.target = st.targetValueSlice]

\* ScanStructSlice, line 60: return err
ReturnError(st, err) == [st EXCEPT !.pc = "done", !.err = err]

\* ScanStructSlice, lines 50-56: Elem() of a target that is no pointer
\* faults and the deferred recover returns the fault as an error
ScanBegin ==
    /\ scanst.pc = "call"
    /\ scanst' = IF scanst.targetIsPtr
                    THEN [scanst EXCEPT !.pc = "loop", !.i = 0, !.targetValueSlice = <<>>]
                    ELSE ReturnError(scanst, Err(ErrRecovered))
    /\ UNCHANGED <<lru, last, touched, run, locker, frames, shadow, keyst, tagst>>

\* ScanStructSlice, lines 57-63: one turn of the loop
ScanRow ==
    /\ scanst.pc = "loop"
    /\ scanst.i < Len(scanst.data)
    /\ \E r \in {ScanStruct(scanst.data[scanst.i + 1], scanst.type, scanst.bindModel)} :
          scanst' = IF r.err # NoError THEN ReturnError(scanst, r.err)
                       ELSE [scanst EXCEPT !.i = scanst.i + 1,
                                           !.targetValueSlice = Append(scanst.targetValueSlice, r.obj)]
    /\ UNCHANGED <<lru, last, touched, run, locker, frames, shadow, keyst, tagst>>

\* ScanStructSlice, lines 64-65: targetValue.Elem().Set(targetValueSlice)
ScanCommit ==
    /\ scanst.pc = "loop"
    /\ scanst.i = Len(scanst.data)
    /\ scanst' = [scanst EXCEPT !.pc = "done", !.target = scanst.targetValueSlice]
    /\ UNCHANGED <<lru, last, touched, run, locker, frames, shadow, keyst, tagst>>

NextScan == ScanBegin \/ ScanRow \/ ScanCommit

SpecScan == InitScan /\ [][NextScan]_vars

ScanDone == scanst.pc = "done"
RowDecoded(i) == ScanStruct(scanst.data[i], scanst.type, scanst.bindModel)
RowFails(i) == RowDecoded(i).err # NoError

\* C7: when a row fails to decode the call returns the error of the first
\* such row and the caller's slice is as it was; when none fails the slice
\* is replaced by one object per row, in row order; and the slice changes
\* in one step only, the one that ends the call without error.
AllOrNothing ==
    /\ [](ScanDone /\ scanst.targetIsPtr =>
            IF \E i \in 1..Len(scanst.data) : RowFails(i)
            THEN LET first == CHOOSE i \in 1..Len(scanst.data) :
                                RowFails(i) /\ \A j \in 1..(i - 1) : ~RowFails(j)
                 IN  scanst.err = RowDecoded(first).err /\ scanst.target = Before
            ELSE /\ scanst.err = NoError
                 /\ Len(scanst.target) = Len(scanst.data)
                 /\ \A i \in 1..Len(scanst.data) : scanst.target[i] = RowDecoded(i).obj)
    /\ [](scanst.pc \in {"call", "loop"} \/ scanst.err # NoError => scanst.target = Before)
    /\ [][scanst'.target # scanst.target =>
            scanst.pc = "loop" /\ scanst'.pc = "done" /\ scanst'.err = NoError]_vars

\* a batch whose second row fails after the first was decoded
AllOrNothingWitness ==
    /\ ScanDone /\ scanst.targetIsPtr
    /\ Len(scanst.data) = 2 /\ ~RowFails(1) /\ RowFails(2)
    /\ scanst.targetValueSlice # <<>>
    /\ scanst.err # NoError /\ scanst.target = Before

Deref(obj) == IF scanst.type.ptr THEN obj.ref ELSE obj

\* rows and fields where an integer meets a bool field
IntegerIntoBool ==
    {<<i, j>> \in (1..Len(scanst.data)) \X (1..Len(scanst.type.fields)) :
        LET field == scanst.type.fields[j]
            name == LookupName(field.tag)
        IN  /\ field.tagged /\ field.kind = "bool"
            /\ name \in DOMAIN scanst.data[i]
            /\ scanst.data[i][name].kind \in SignedKinds \cup UnsignedKinds}

Source(p) == scanst.data[p[1]][LookupName(scanst.type.fields[p[2]].tag)].val
Target(p) == Deref(scanst.target[p[1]])[p[2]]

\* C8 as claimed: an integer decoded into a bool field gives true for every
\* value but zero.
IntegerToBoolNonZero ==
    ScanDone /\ scanst.err = NoError =>
        \A p \in IntegerIntoBool : Target(p) = (Source(p) # 0)

\* C8 amended: an integer decoded into a bool field gives true exactly for
\* the values above zero: every non-zero unsigned value and every positive
\* signed value; zero and the negative signed values give false.
IntegerToBoolPositive ==
    ScanDone /\ scanst.err = NoError =>
        \A p \in IntegerIntoBool : Target(p) = (Source(p) > 0)

IntegerToBoolPositiveWitness ==
    /\ ScanDone /\ scanst.err = NoError
    /\ \E p, q \in IntegerIntoBool :
          /\ Source(p) = 7 /\ Target(p) = TRUE
          /\ Source(q) = 0 - 1 /\ Target(q) = FALSE

====
